---- MODULE Spec2Model ----
(***************************************************************************)
(* Message-execution context of gear-core                                  *)
(* (core/src/message/context.rs): ContextSettings, ContextOutcome,         *)
(* ContextStore and MessageContext with its operations init_program,       *)
(* send_init, send_push, send_commit, reply_push, reply_commit, wake and   *)
(* drain, driven by an arbitrary program over a chain of executions that   *)
(* share the store (wait / wake).                                          *)
(***************************************************************************)
EXTENDS Integers, Sequences, FiniteSets, TLC

(***************************************************************************)
(* Bounds of the exploration.                                              *)
(***************************************************************************)
\* largest settings.outgoing_limit explored
MaxLimit == 2
\* most bytes a program streams through send_push / reply_push in one chain
MaxBuf == 2
\* calls explored in one chain: the operations that returned Ok, and the
\* resumes
MaxCalls == 5
\* largest settings.outgoing_limit explored over a chain of executions
MaxChainLimit == 1

(***************************************************************************)
(* Input domains.                                                          *)
(***************************************************************************)
Bytes == {1, 2}
\* byte strings handed to send_push / reply_push
Chunks == {<<b>> : b \in Bytes}
\* payloads carried by the packets themselves
PacketPayloads == {<<3>>}
ProgramIds == {1, 2}
WakeIds == {1, 2}
ExitCodes == {0, 1}
\* handles a program may pass: every allocatable one and one beyond
Handles == 0..MaxLimit
IncomingMessages == {[id |-> 3, source |-> 4, payload |-> <<1, 2>>]}
SendingFees == {0}
ExecutingPrograms == {3}

InitPackets == [destination : ProgramIds, payload : PacketPayloads]
HandlePackets == [destination : {1}, payload : PacketPayloads]
ReplyPackets == [payload : PacketPayloads, exit_code : ExitCodes]

(***************************************************************************)
(* Option<T>: None is the empty sequence, Some(x) the one-element one.     *)
(***************************************************************************)
None == <<>>
Some(x) == <<x>>
is_some(o) == Len(o) = 1
unwrap(o) == o[1]
unwrap_or_default(o, d) == IF is_some(o) THEN o[1] ELSE d

VARIABLES
    current,    \* MessageContext.current : IncomingMessage
    program_id, \* the executing program (ContextOutcome.program_id)
    settings,   \* MessageContext.settings : ContextSettings
    store,      \* MessageContext.store : ContextStore
    outcome,    \* MessageContext.outcome : ContextOutcome
    pc,         \* "running": the context is live; "drained": it was consumed
    drained,    \* what ContextOutcome::drain handed to the host
    execNo,     \* number of resumes that led to the current context
    lastOp,     \* the last call: operation, arguments, returned value
    hist,       \* history of the calls' results (see HistInit)
    prev,       \* store, outcome and hist as they were before the last call
    store_in,   \* what the store held when the context was created (see StoreIn)
    pristine    \* Some(the store the context was created with) until one of
                \* its operations returns Ok, None from then on

vars == <<current, program_id, settings, store, outcome, pc, drained, execNo,
          lastOp, hist, prev, store_in, pristine>>

(***************************************************************************)
(* Collections of the standard library, as the code uses them.             *)
(***************************************************************************)
\* BTreeMap::new / Default
EmptyMap == [k \in {} |-> None]
\* BTreeMap::len
map_len(m) == Cardinality(DOMAIN m)
\* BTreeMap::insert(k, v)
map_insert(m, k, v) == [x \in (DOMAIN m) \cup {k} |-> IF x = k THEN v ELSE m[x]]
\* BTreeMap::get_mut(k): Some(slot) when the key is present
contains_key(m, k) == k \in DOMAIN m
\* Vec::push
push(v, x) == Append(v, x)
\* Vec::extend_from_slice
extend_from_slice(data, buffer) == data \o buffer

(***************************************************************************)
(* Identifiers and messages (crate::ids, crate::message).  The hash H is   *)
(* kept symbolic: an identifier is the tuple of what it is derived from.   *)
(***************************************************************************)
generate_outgoing(origin_msg_id, handle) == <<"outgoing", origin_msg_id, handle>>
generate_reply(origin_msg_id, exit_code) == <<"reply", origin_msg_id, exit_code>>

\* Packet::prepend: the given bytes go in front of the packet's payload
prepend(packet, data) == [packet EXCEPT !.payload = data \o @]

InitMessage_from_packet(id, packet) ==
    [id |-> id, destination |-> packet.destination, payload |-> packet.payload]
HandleMessage_from_packet(id, packet) ==
    [id |-> id, destination |-> packet.destination, payload |-> packet.payload]
ReplyMessage_from_packet(id, packet) ==
    [id |-> id, payload |-> packet.payload, exit_code |-> packet.exit_code]

\* InitMessage::into_dispatch / HandleMessage::into_dispatch
into_dispatch(kind, msg, source) ==
    [kind |-> kind, id |-> msg.id, source |-> source,
     destination |-> msg.destination, payload |-> msg.payload, reply_to |-> None]
\* ReplyMessage::into_dispatch(program_id, destination, origin_msg_id)
reply_into_dispatch(msg, source, destination, origin_msg_id) ==
    [kind |-> "Reply", id |-> msg.id, source |-> source,
     destination |-> destination, payload |-> msg.payload,
     reply_to |-> Some(<<origin_msg_id, msg.exit_code>>)]

(***************************************************************************)
(* ContextSettings, ContextOutcome, ContextStore.                          *)
(***************************************************************************)
OUTGOING_LIMIT == 1024

ContextSettings_new(sending_fee, outgoing_limit) ==
    [sending_fee |-> sending_fee, outgoing_limit |-> outgoing_limit]

\* Default for ContextSettings with the two arguments exchanged
ContextSettings_default_swapped == ContextSettings_new(OUTGOING_LIMIT, 0)

\* impl Default for ContextSettings
ContextSettings_default == ContextSettings_new(0, OUTGOING_LIMIT)

\* ContextOutcome::new with the program and the source exchanged
ContextOutcome_new_swapped(pid, source, origin_msg_id) ==
    [init |-> <<>>, handle |-> <<>>, reply |-> None, awakening |-> <<>>,
     program_id |-> source, source |-> pid, origin_msg_id |-> origin_msg_id]

ContextOutcome_new(pid, source, origin_msg_id) ==
    [init |-> <<>>, handle |-> <<>>, reply |-> None, awakening |-> <<>>,
     program_id |-> pid, source |-> source, origin_msg_id |-> origin_msg_id]

ContextStore_default ==
    [outgoing |-> EmptyMap, reply |-> None, initialized |-> {}, awaken |-> {},
     reply_sent |-> FALSE]

RECURSIVE map_dispatch(_, _, _)
\* msgs.into_iter() ... dispatches.push(msg.into_dispatch(program_id))
map_dispatch(kind, msgs, pid) ==
    IF msgs = <<>> THEN <<>>
    ELSE <<into_dispatch(kind, Head(msgs), pid)>> \o map_dispatch(kind, Tail(msgs), pid)

\* drain that emits the reply first
ContextOutcome_drain_reply_first(oc) ==
    LET inits == map_dispatch("Init", oc.init, oc.program_id)
        handles == map_dispatch("Handle", oc.handle, oc.program_id)
        reply == IF is_some(oc.reply)
                 THEN <<reply_into_dispatch(unwrap(oc.reply), oc.program_id,
                                            oc.source, oc.origin_msg_id)>>
                 ELSE <<>>
    IN  [dispatches |-> reply \o inits \o handles, awakening |-> oc.awakening]

\* ContextOutcome::drain: (dispatches, awakening)
ContextOutcome_drain(oc) ==
    LET inits == map_dispatch("Init", oc.init, oc.program_id)
        handles == map_dispatch("Handle", oc.handle, oc.program_id)
        reply == IF is_some(oc.reply)
                 THEN <<reply_into_dispatch(unwrap(oc.reply), oc.program_id,
                                            oc.source, oc.origin_msg_id)>>
                 ELSE <<>>
    IN  [dispatches |-> inits \o handles \o reply, awakening |-> oc.awakening]

(***************************************************************************)
(* Encode / Decode of ContextStore (derived, parity-scale-codec): the       *)
(* fields in declaration order; a collection is its length and its items in *)
(* iteration order, an Option a tag and the value, a Vec<u8> its length and *)
(* its bytes.  Every number (length, tag, u32, id, byte) is one item of the *)
(* encoding.                                                               *)
(***************************************************************************)
RECURSIVE iter(_)
\* BTreeMap::keys / BTreeSet::iter: ascending
iter(S) ==
    IF S = {} THEN <<>>
    ELSE LET k == CHOOSE x \in S : \A y \in S : x <= y
         IN  <<k>> \o iter(S \ {k})

encode_bytes(b) == <<Len(b)>> \o b

\* an encoding of Option<Payload> that writes None as an empty payload
encode_option_none_as_empty(o) == <<1>> \o encode_bytes(unwrap_or_default(o, <<>>))

encode_option(o) == IF is_some(o) THEN <<1>> \o encode_bytes(unwrap(o)) ELSE <<0>>

RECURSIVE encode_entries(_, _)
encode_entries(m, keys) ==
    IF keys = <<>> THEN <<>>
    ELSE <<Head(keys)>> \o encode_option(m[Head(keys)])
             \o encode_entries(m, Tail(keys))

encode_map(m) == <<map_len(m)>> \o encode_entries(m, iter(DOMAIN m))
encode_set(S) == <<Cardinality(S)>> \o iter(S)
encode_bool(b) == IF b THEN <<1>> ELSE <<0>>

ContextStore_encode(st) ==
    encode_map(st.outgoing) \o encode_option(st.reply)
        \o encode_set(st.initialized) \o encode_set(st.awaken)
        \o encode_bool(st.reply_sent)

\* each decoder reads input from position p: the value and the next position
decode_bytes(input, p) ==
    LET n == input[p]
    IN  [val |-> SubSeq(input, p + 1, p + n), pos |-> p + n + 1]

decode_option(input, p) ==
    IF input[p] = 0 THEN [val |-> None, pos |-> p + 1]
    ELSE LET r == decode_bytes(input, p + 1)
         IN  [val |-> Some(r.val), pos |-> r.pos]

RECURSIVE decode_entries(_, _, _, _)
decode_entries(input, p, n, m) ==
    IF n = 0 THEN [val |-> m, pos |-> p]
    ELSE LET r == decode_option(input, p + 1)
         IN  decode_entries(input, r.pos, n - 1, map_insert(m, input[p], r.val))

decode_map(input, p) == decode_entries(input, p + 1, input[p], EmptyMap)

decode_set(input, p) ==
    LET n == input[p]
    IN  [val |-> {input[i] : i \in (p + 1)..(p + n)}, pos |-> p + n + 1]

decode_bool(input, p) == [val |-> input[p] = 1, pos |-> p + 1]

ContextStore_decode(input) ==
    LET o == decode_map(input, 1)
        r == decode_option(input, o.pos)
        i == decode_set(input, r.pos)
        a == decode_set(input, i.pos)
        b == decode_bool(input, a.pos)
    IN  [outgoing |-> o.val, reply |-> r.val, initialized |-> i.val,
         awaken |-> a.val, reply_sent |-> b.val]

(***************************************************************************)
(* MessageContext operations.  Each is a function of the context's store   *)
(* and outcome (current and settings are read) to the value returned and   *)
(* the store and outcome the call leaves behind.                           *)
(***************************************************************************)
NoRet == [pid |-> None, mid |-> None, h |-> None]
Ok(st, oc, ret) == [res |-> "Ok", store |-> st, outcome |-> oc, ret |-> ret]
Err(e, st, oc) == [res |-> e, store |-> st, outcome |-> oc, ret |-> NoRet]

\* new_with_settings that drops the prior store
new_with_settings_fresh_store(message, pid, st, s) ==
    [outcome |-> ContextOutcome_new(pid, message.source, message.id),
     current |-> message,
     store |-> ContextStore_default,
     settings |-> s]

\* new_with_settings that takes only the buffers of the prior store
new_with_settings_buffers_only(message, pid, st, s) ==
    LET given == unwrap_or_default(st, ContextStore_default)
    IN  [outcome |-> ContextOutcome_new(pid, message.source, message.id),
         current |-> message,
         store |-> [ContextStore_default EXCEPT !.outgoing = given.outgoing,
                                                !.reply = given.reply],
         settings |-> s]

\* new_with_settings that leaves the tombstones of the prior store behind
new_with_settings_compacted(message, pid, st, s) ==
    LET given == unwrap_or_default(st, ContextStore_default)
        open == {k \in DOMAIN given.outgoing : is_some(given.outgoing[k])}
    IN  [outcome |-> ContextOutcome_new(pid, message.source, message.id),
         current |-> message,
         store |-> [given EXCEPT !.outgoing = [k \in open |-> given.outgoing[k]]],
         settings |-> s]

\* new_with_settings that leaves the pending reply bytes behind
new_with_settings_without_reply(message, pid, st, s) ==
    LET given == unwrap_or_default(st, ContextStore_default)
    IN  [outcome |-> ContextOutcome_new(pid, message.source, message.id),
         current |-> message,
         store |-> [given EXCEPT !.reply = None],
         settings |-> s]

\* MessageContext::new_with_settings
new_with_settings(message, pid, st, s) ==
    [outcome |-> ContextOutcome_new(pid, message.source, message.id),
     current |-> message,
     store |-> unwrap_or_default(st, ContextStore_default),
     settings |-> s]

\* MessageContext::new: the default ContextSettings
MessageContext_new(message, pid, st) ==
    new_with_settings(message, pid, st, ContextSettings_default)

\* init_program that forgets to record the destination as initialized
init_program_unrecorded(st, oc, packet) ==
    LET pid == packet.destination
        last == map_len(st.outgoing)
        message_id == generate_outgoing(current.id, last)
        message == InitMessage_from_packet(message_id, packet)
    IN  IF pid \in st.initialized THEN Err("DuplicateInit", st, oc)
        ELSE IF last >= settings.outgoing_limit THEN Err("LimitExceeded", st, oc)
        ELSE Ok([st EXCEPT !.outgoing = map_insert(@, last, None)],
                [oc EXCEPT !.init = push(@, message)],
                [NoRet EXCEPT !.pid = Some(pid), !.mid = Some(message_id)])

\* init_program that records the destination but never queues the message
init_program_unpushed(st, oc, packet) ==
    LET pid == packet.destination
        last == map_len(st.outgoing)
        message_id == generate_outgoing(current.id, last)
    IN  IF pid \in st.initialized THEN Err("DuplicateInit", st, oc)
        ELSE IF last >= settings.outgoing_limit THEN Err("LimitExceeded", st, oc)
        ELSE Ok([st EXCEPT !.outgoing = map_insert(@, last, None),
                           !.initialized = @ \cup {pid}],
                oc,
                [NoRet EXCEPT !.pid = Some(pid), !.mid = Some(message_id)])

\* init_program that leaves its slot open, as send_init does
init_program_open(st, oc, packet) ==
    LET pid == packet.destination
        last == map_len(st.outgoing)
        message_id == generate_outgoing(current.id, last)
        message == InitMessage_from_packet(message_id, packet)
    IN  IF pid \in st.initialized THEN Err("DuplicateInit", st, oc)
        ELSE IF last >= settings.outgoing_limit THEN Err("LimitExceeded", st, oc)
        ELSE Ok([st EXCEPT !.outgoing = map_insert(@, last, Some(<<>>)),
                           !.initialized = @ \cup {pid}],
                [oc EXCEPT !.init = push(@, message)],
                [NoRet EXCEPT !.pid = Some(pid), !.mid = Some(message_id)])

\* init_program whose limit check is off by one (last > outgoing_limit)
init_program_off_by_one(st, oc, packet) ==
    LET pid == packet.destination
        last == map_len(st.outgoing)
        message_id == generate_outgoing(current.id, last)
        message == InitMessage_from_packet(message_id, packet)
    IN  IF pid \in st.initialized THEN Err("DuplicateInit", st, oc)
        ELSE IF last > settings.outgoing_limit THEN Err("LimitExceeded", st, oc)
        ELSE Ok([st EXCEPT !.outgoing = map_insert(@, last, None),
                           !.initialized = @ \cup {pid}],
                [oc EXCEPT !.init = push(@, message)],
                [NoRet EXCEPT !.pid = Some(pid), !.mid = Some(message_id)])

\* init_program that holds the number of initialized programs, not the number
\* of slots, against the limit
init_program_counts_initialized(st, oc, packet) ==
    LET pid == packet.destination
        last == map_len(st.outgoing)
        message_id == generate_outgoing(current.id, last)
        message == InitMessage_from_packet(message_id, packet)
    IN  IF pid \in st.initialized THEN Err("DuplicateInit", st, oc)
        ELSE IF Cardinality(st.initialized) >= settings.outgoing_limit
             THEN Err("LimitExceeded", st, oc)
        ELSE Ok([st EXCEPT !.outgoing = map_insert(@, last, None),
                           !.initialized = @ \cup {pid}],
                [oc EXCEPT !.init = push(@, message)],
                [NoRet EXCEPT !.pid = Some(pid), !.mid = Some(message_id)])

\* init_program that checks the limit before the duplicate
init_program_limit_first(st, oc, packet) ==
    LET pid == packet.destination
        last == map_len(st.outgoing)
        message_id == generate_outgoing(current.id, last)
        message == InitMessage_from_packet(message_id, packet)
    IN  IF last >= settings.outgoing_limit THEN Err("LimitExceeded", st, oc)
        ELSE IF pid \in st.initialized THEN Err("DuplicateInit", st, oc)
        ELSE Ok([st EXCEPT !.outgoing = map_insert(@, last, None),
                           !.initialized = @ \cup {pid}],
                [oc EXCEPT !.init = push(@, message)],
                [NoRet EXCEPT !.pid = Some(pid), !.mid = Some(message_id)])

\* init_program that generates the id from outgoing.len() after the insert
init_program_id_after_insert(st, oc, packet) ==
    LET pid == packet.destination
        last == map_len(st.outgoing)
        message_id == generate_outgoing(current.id, last + 1)
        message == InitMessage_from_packet(message_id, packet)
    IN  IF pid \in st.initialized THEN Err("DuplicateInit", st, oc)
        ELSE IF last >= settings.outgoing_limit THEN Err("LimitExceeded", st, oc)
        ELSE Ok([st EXCEPT !.outgoing = map_insert(@, last, None),
                           !.initialized = @ \cup {pid}],
                [oc EXCEPT !.init = push(@, message)],
                [NoRet EXCEPT !.pid = Some(pid), !.mid = Some(message_id)])

\* MessageContext::init_program
init_program(st, oc, packet) ==
    LET pid == packet.destination
        last == map_len(st.outgoing)
        message_id == generate_outgoing(current.id, last)
        message == InitMessage_from_packet(message_id, packet)
    IN  IF pid \in st.initialized THEN Err("DuplicateInit", st, oc)
        ELSE IF last >= settings.outgoing_limit THEN Err("LimitExceeded", st, oc)
        ELSE Ok([st EXCEPT !.outgoing = map_insert(@, last, None),
                           !.initialized = @ \cup {pid}],
                [oc EXCEPT !.init = push(@, message)],
                [NoRet EXCEPT !.pid = Some(pid), !.mid = Some(message_id)])

\* send_commit that reads the buffer without taking it: the slot stays open
send_commit_untaken(st, oc, handle, packet) ==
    IF contains_key(st.outgoing, handle)
    THEN LET payload == st.outgoing[handle]
         IN  IF is_some(payload)
             THEN LET pkt == prepend(packet, unwrap(payload))
                      message_id == generate_outgoing(current.id, handle)
                      message == HandleMessage_from_packet(message_id, pkt)
                  IN  Ok(st,
                         [oc EXCEPT !.handle = push(@, message)],
                         [NoRet EXCEPT !.mid = Some(message_id)])
             ELSE Err("LateAccess", st, oc)
    ELSE Err("OutOfBounds", st, oc)

\* send_commit that removes the slot instead of leaving a tombstone
send_commit_removing(st, oc, handle, packet) ==
    IF contains_key(st.outgoing, handle)
    THEN LET payload == st.outgoing[handle]
         IN  IF is_some(payload)
             THEN LET pkt == prepend(packet, unwrap(payload))
                      message_id == generate_outgoing(current.id, handle)
                      message == HandleMessage_from_packet(message_id, pkt)
                  IN  Ok([st EXCEPT !.outgoing =
                              [k \in (DOMAIN @) \ {handle} |-> @[k]]],
                         [oc EXCEPT !.handle = push(@, message)],
                         [NoRet EXCEPT !.mid = Some(message_id)])
             ELSE Err("LateAccess", st, oc)
    ELSE Err("OutOfBounds", st, oc)

\* send_commit that derives the message id from outgoing.len(), as init_program
\* does, not from the handle
send_commit_id_from_len(st, oc, handle, packet) ==
    IF contains_key(st.outgoing, handle)
    THEN LET payload == st.outgoing[handle]
         IN  IF is_some(payload)
             THEN LET pkt == prepend(packet, unwrap(payload))
                      last == map_len(st.outgoing)
                      message_id == generate_outgoing(current.id, last)
                      message == HandleMessage_from_packet(message_id, pkt)
                  IN  Ok([st EXCEPT !.outgoing[handle] = None],
                         [oc EXCEPT !.handle = push(@, message)],
                         [NoRet EXCEPT !.mid = Some(message_id)])
             ELSE Err("LateAccess", st, oc)
    ELSE Err("OutOfBounds", st, oc)

\* send_commit that takes the pending reply bytes along with the buffer
send_commit_taking_reply(st, oc, handle, packet) ==
    IF contains_key(st.outgoing, handle)
    THEN LET payload == st.outgoing[handle]
         IN  IF is_some(payload)
             THEN LET pkt == prepend(packet, unwrap(payload))
                      message_id == generate_outgoing(current.id, handle)
                      message == HandleMessage_from_packet(message_id, pkt)
                  IN  Ok([st EXCEPT !.outgoing[handle] = None, !.reply = None],
                         [oc EXCEPT !.handle = push(@, message)],
                         [NoRet EXCEPT !.mid = Some(message_id)])
             ELSE Err("LateAccess", st, oc)
    ELSE Err("OutOfBounds", st, oc)

\* MessageContext::send_commit
send_commit(st, oc, handle, packet) ==
    IF contains_key(st.outgoing, handle)
    THEN LET payload == st.outgoing[handle]
         IN  IF is_some(payload)
             THEN LET pkt == prepend(packet, unwrap(payload))
                      message_id == generate_outgoing(current.id, handle)
                      message == HandleMessage_from_packet(message_id, pkt)
                  IN  Ok([st EXCEPT !.outgoing[handle] = None],
                         [oc EXCEPT !.handle = push(@, message)],
                         [NoRet EXCEPT !.mid = Some(message_id)])
             ELSE Err("LateAccess", st, oc)
    ELSE Err("OutOfBounds", st, oc)

\* send_init whose limit check is off by one (last <= outgoing_limit)
send_init_off_by_one(st, oc) ==
    LET last == map_len(st.outgoing)
    IN  IF last <= settings.outgoing_limit
        THEN Ok([st EXCEPT !.outgoing = map_insert(@, last, Some(<<>>))], oc,
                [NoRet EXCEPT !.h = Some(last)])
        ELSE Err("LimitExceeded", st, oc)

\* send_init without the limit check
send_init_unlimited(st, oc) ==
    LET last == map_len(st.outgoing)
    IN  Ok([st EXCEPT !.outgoing = map_insert(@, last, Some(<<>>))], oc,
           [NoRet EXCEPT !.h = Some(last)])

\* send_init that returns outgoing.len() after the insert
send_init_one_based(st, oc) ==
    LET last == map_len(st.outgoing)
    IN  IF last < settings.outgoing_limit
        THEN Ok([st EXCEPT !.outgoing = map_insert(@, last, Some(<<>>))], oc,
                [NoRet EXCEPT !.h = Some(last + 1)])
        ELSE Err("LimitExceeded", st, oc)

\* send_init that already queues an empty handle message for the host
send_init_announced(st, oc) ==
    LET last == map_len(st.outgoing)
        message_id == generate_outgoing(current.id, last)
        message == [id |-> message_id, destination |-> 0, payload |-> <<>>]
    IN  IF last < settings.outgoing_limit
        THEN Ok([st EXCEPT !.outgoing = map_insert(@, last, Some(<<>>))],
                [oc EXCEPT !.handle = push(@, message)],
                [NoRet EXCEPT !.h = Some(last)])
        ELSE Err("LimitExceeded", st, oc)

\* MessageContext::send_init
send_init(st, oc) ==
    LET last == map_len(st.outgoing)
    IN  IF last < settings.outgoing_limit
        THEN Ok([st EXCEPT !.outgoing = map_insert(@, last, Some(<<>>))], oc,
                [NoRet EXCEPT !.h = Some(last)])
        ELSE Err("LimitExceeded", st, oc)

\* send_push that puts the new bytes in front of the buffered ones
send_push_front(st, oc, handle, buffer) ==
    IF contains_key(st.outgoing, handle)
    THEN IF is_some(st.outgoing[handle])
         THEN Ok([st EXCEPT !.outgoing[handle] =
                                Some(extend_from_slice(buffer, unwrap(@)))],
                 oc, NoRet)
         ELSE Err("LateAccess", st, oc)
    ELSE Err("OutOfBounds", st, oc)

\* send_push with the arms for a tombstoned and a missing slot exchanged
send_push_arms_swapped(st, oc, handle, buffer) ==
    IF contains_key(st.outgoing, handle)
    THEN IF is_some(st.outgoing[handle])
         THEN Ok([st EXCEPT !.outgoing[handle] =
                                Some(extend_from_slice(unwrap(@), buffer))],
                 oc, NoRet)
         ELSE Err("OutOfBounds", st, oc)
    ELSE Err("LateAccess", st, oc)

\* send_push that creates the buffer when there is none, as reply_push does
send_push_lazy(st, oc, handle, buffer) ==
    IF contains_key(st.outgoing, handle)
    THEN Ok([st EXCEPT !.outgoing[handle] =
                 Some(extend_from_slice(unwrap_or_default(@, <<>>), buffer))],
            oc, NoRet)
    ELSE Err("OutOfBounds", st, oc)

\* MessageContext::send_push
send_push(st, oc, handle, buffer) ==
    IF contains_key(st.outgoing, handle)
    THEN IF is_some(st.outgoing[handle])
         THEN Ok([st EXCEPT !.outgoing[handle] =
                                Some(extend_from_slice(unwrap(@), buffer))],
                 oc, NoRet)
         ELSE Err("LateAccess", st, oc)
    ELSE Err("OutOfBounds", st, oc)

\* reply_commit that does not set the reply_sent latch
reply_commit_unlatched(st, oc, packet) ==
    IF ~st.reply_sent
    THEN LET data == unwrap_or_default(st.reply, <<>>)
             pkt == prepend(packet, data)
             message_id == generate_reply(current.id, pkt.exit_code)
             message == ReplyMessage_from_packet(message_id, pkt)
         IN  Ok([st EXCEPT !.reply = None],
                [oc EXCEPT !.reply = Some(message)],
                [NoRet EXCEPT !.mid = Some(message_id)])
    ELSE Err("DuplicateReply", st, oc)

\* reply_commit that sends the packet without the buffered reply bytes
reply_commit_unbuffered(st, oc, packet) ==
    IF ~st.reply_sent
    THEN LET message_id == generate_reply(current.id, packet.exit_code)
             message == ReplyMessage_from_packet(message_id, packet)
         IN  Ok([st EXCEPT !.reply = None, !.reply_sent = TRUE],
                [oc EXCEPT !.reply = Some(message)],
                [NoRet EXCEPT !.mid = Some(message_id)])
    ELSE Err("DuplicateReply", st, oc)

\* reply_commit that sets the latch but does not put the reply into the outcome
reply_commit_unrecorded(st, oc, packet) ==
    IF ~st.reply_sent
    THEN LET data == unwrap_or_default(st.reply, <<>>)
             pkt == prepend(packet, data)
             message_id == generate_reply(current.id, pkt.exit_code)
         IN  Ok([st EXCEPT !.reply = None, !.reply_sent = TRUE],
                oc,
                [NoRet EXCEPT !.mid = Some(message_id)])
    ELSE Err("DuplicateReply", st, oc)

\* reply_commit that copies the reply buffer and leaves it in the store
reply_commit_keeping_buffer(st, oc, packet) ==
    IF ~st.reply_sent
    THEN LET data == unwrap_or_default(st.reply, <<>>)
             pkt == prepend(packet, data)
             message_id == generate_reply(current.id, pkt.exit_code)
             message == ReplyMessage_from_packet(message_id, pkt)
         IN  Ok([st EXCEPT !.reply_sent = TRUE],
                [oc EXCEPT !.reply = Some(message)],
                [NoRet EXCEPT !.mid = Some(message_id)])
    ELSE Err("DuplicateReply", st, oc)

\* MessageContext::reply_commit
reply_commit(st, oc, packet) ==
    IF ~st.reply_sent
    THEN LET data == unwrap_or_default(st.reply, <<>>)
             pkt == prepend(packet, data)
             message_id == generate_reply(current.id, pkt.exit_code)
             message == ReplyMessage_from_packet(message_id, pkt)
         IN  Ok([st EXCEPT !.reply = None, !.reply_sent = TRUE],
                [oc EXCEPT !.reply = Some(message)],
                [NoRet EXCEPT !.mid = Some(message_id)])
    ELSE Err("DuplicateReply", st, oc)

\* reply_push that creates the reply buffer before it looks at reply_sent
reply_push_eager(st, oc, buffer) ==
    LET created == [st EXCEPT !.reply = Some(unwrap_or_default(@, <<>>))]
    IN  IF ~st.reply_sent
        THEN Ok([created EXCEPT !.reply =
                        Some(extend_from_slice(unwrap(@), buffer))],
                oc, NoRet)
        ELSE Err("LateAccess", created, oc)

\* reply_push that signals a sent reply with reply_commit's error
reply_push_wrong_error(st, oc, buffer) ==
    IF ~st.reply_sent
    THEN Ok([st EXCEPT !.reply =
                    Some(extend_from_slice(unwrap_or_default(@, <<>>), buffer))],
            oc, NoRet)
    ELSE Err("DuplicateReply", st, oc)

\* reply_push that appends to the reply already sent
reply_push_into_outcome(st, oc, buffer) ==
    IF ~st.reply_sent
    THEN Ok([st EXCEPT !.reply =
                    Some(extend_from_slice(unwrap_or_default(@, <<>>), buffer))],
            oc, NoRet)
    ELSE Err("LateAccess", st,
             IF is_some(oc.reply)
             THEN [oc EXCEPT !.reply =
                      Some([unwrap(@) EXCEPT !.payload =
                                extend_from_slice(@, buffer)])]
             ELSE oc)

\* MessageContext::reply_push
reply_push(st, oc, buffer) ==
    IF ~st.reply_sent
    THEN Ok([st EXCEPT !.reply =
                    Some(extend_from_slice(unwrap_or_default(@, <<>>), buffer))],
            oc, NoRet)
    ELSE Err("LateAccess", st, oc)

\* wake that refuses as soon as any id was woken
wake_any(st, oc, waker_id) ==
    IF st.awaken = {}
    THEN Ok([st EXCEPT !.awaken = @ \cup {waker_id}],
            [oc EXCEPT !.awakening = push(@, waker_id)], NoRet)
    ELSE Err("DuplicateWaking", st, oc)

\* wake that records the id in the store only
wake_silent(st, oc, waker_id) ==
    IF waker_id \notin st.awaken
    THEN Ok([st EXCEPT !.awaken = @ \cup {waker_id}], oc, NoRet)
    ELSE Err("DuplicateWaking", st, oc)

\* wake that puts the id at the front of the list
wake_front(st, oc, waker_id) ==
    IF waker_id \notin st.awaken
    THEN Ok([st EXCEPT !.awaken = @ \cup {waker_id}],
            [oc EXCEPT !.awakening = <<waker_id>> \o @], NoRet)
    ELSE Err("DuplicateWaking", st, oc)

\* MessageContext::wake
wake(st, oc, waker_id) ==
    IF waker_id \notin st.awaken
    THEN Ok([st EXCEPT !.awaken = @ \cup {waker_id}],
            [oc EXCEPT !.awakening = push(@, waker_id)], NoRet)
    ELSE Err("DuplicateWaking", st, oc)

\* MessageContext::current
MessageContext_current == current
\* MessageContext::program_id
MessageContext_program_id == outcome.program_id

\* MessageContext::drain: (outcome, store)
MessageContext_drain(st, oc) == [outcome |-> oc, store |-> st]

(***************************************************************************)
(* The record of the calls.  lastOp is the last call made; hist is what    *)
(* the program has observed of the results so far, kept apart from the     *)
(* store and the outcome:                                                  *)
(*   replyOk         number of reply_commit calls that returned Ok         *)
(*   sendInit        handles returned by send_init                         *)
(*   commitTried     handles of sendInit on which send_commit was called   *)
(*   commitOk        handles on which a send_commit returned Ok            *)
(*   initOk          destinations for which init_program returned Ok       *)
(*   wakeOk          ids for which wake returned Ok                        *)
(*   initSlots       store.outgoing.len() before each init_program that    *)
(*                   returned Ok: the slots allocated by init_program      *)
(*   nAlloc          init_program / send_init calls that returned Ok in    *)
(*                   the current execution                                 *)
(*   pushed[h]       bytes of the send_push(h, _) calls that returned Ok,  *)
(*                   in call order                                         *)
(*   replyPushed     bytes of the reply_push calls that returned Ok        *)
(*   anyReplyPush    whether a reply_push returned Ok                      *)
(*   sent            <<kind, id>> of the init_program, send_commit and     *)
(*                   reply_commit calls that returned Ok in the current    *)
(*                   execution, in call order                              *)
(*   streamed        number of bytes accepted by send_push and reply_push  *)
(*   calls           number of operations that returned Ok, and of resumes *)
(***************************************************************************)
NoArgs == [h |-> None, dest |-> None, bytes |-> <<>>, code |-> None, id |-> None]

Call(op, arg, r) == [op |-> op, arg |-> arg, res |-> r.res, ret |-> r.ret]

HistInit ==
    [replyOk |-> 0, sendInit |-> {}, commitTried |-> {}, commitOk |-> {},
     initOk |-> {}, initSlots |-> {}, wakeOk |-> {}, nAlloc |-> 0,
     pushed |-> [h \in Handles |-> <<>>], replyPushed |-> <<>>,
     anyReplyPush |-> FALSE, sent |-> <<>>, streamed |-> 0, calls |-> 0]

Snapshot == [store |-> store, outcome |-> outcome, hist |-> hist]

\* of the store a context is created with: the latch, the two sets and the
\* number of slots of outgoing
StoreIn(st) ==
    [reply_sent |-> st.reply_sent, initialized |-> st.initialized,
     awaken |-> st.awaken, slots |-> map_len(st.outgoing)]

NothingDrained == [dispatches |-> <<>>, awakening |-> <<>>]

\* the program stays within the bytes it may stream
Fits(buffer) == hist.streamed + Len(buffer) <= MaxBuf

\* a context created with no prior store, for an outgoing_limit among limits
InitWith(limits) ==
    /\ current \in IncomingMessages
    /\ program_id \in ExecutingPrograms
    /\ settings \in {ContextSettings_new(f, l) : f \in SendingFees, l \in limits}
    /\ LET ctx == new_with_settings(current, program_id, None, settings)
       IN  /\ store = ctx.store
           /\ outcome = ctx.outcome
           /\ prev = [store |-> ctx.store, outcome |-> ctx.outcome, hist |-> HistInit]
    /\ pc = "running"
    /\ drained = NothingDrained
    /\ execNo = 0
    /\ lastOp = [op |-> "new", arg |-> NoArgs, res |-> "Ok", ret |-> NoRet]
    /\ hist = HistInit
    /\ pristine = Some(ContextStore_default)
    /\ store_in = StoreIn(new_with_settings(current, program_id, None, settings).store)

Init == InitWith(0..MaxLimit)
InitChain == InitWith(0..MaxChainLimit)

\* a context created by MessageContext::new with no prior store
InitDefault ==
    /\ current \in IncomingMessages
    /\ program_id \in ExecutingPrograms
    /\ LET ctx == MessageContext_new(current, program_id, None)
       IN  /\ settings = ctx.settings
           /\ store = ctx.store
           /\ outcome = ctx.outcome
           /\ prev = [store |-> ctx.store, outcome |-> ctx.outcome, hist |-> HistInit]
           /\ store_in = StoreIn(ctx.store)
    /\ pc = "running"
    /\ drained = NothingDrained
    /\ execNo = 0
    /\ lastOp = [op |-> "new", arg |-> NoArgs, res |-> "Ok", ret |-> NoRet]
    /\ hist = HistInit
    /\ pristine = Some(ContextStore_default)

\* what every call does to the variables: r is what the operation returned,
\* h the history after it
Apply(op, arg, r, h) ==
    /\ store' = r.store
    /\ outcome' = r.outcome
    /\ lastOp' = Call(op, arg, r)
    /\ hist' = IF r.res = "Ok" THEN [h EXCEPT !.calls = @ + 1] ELSE h
    /\ prev' = Snapshot
    /\ pristine' = IF r.res = "Ok" THEN None ELSE pristine
    /\ UNCHANGED <<current, program_id, settings, pc, drained, execNo, store_in>>

\* a call within the calls explored
Step(op, arg, r, h) ==
    /\ r.res = "Ok" => hist.calls < MaxCalls
    /\ Apply(op, arg, r, h)

InitProgram ==
    /\ pc = "running"
    /\ \E packet \in InitPackets :
         LET r == init_program(store, outcome, packet)
         IN  Step("init_program",
                  [NoArgs EXCEPT !.dest = Some(packet.destination),
                                 !.bytes = packet.payload],
                  r,
                  IF r.res = "Ok"
                  THEN [hist EXCEPT !.initOk = @ \cup {packet.destination},
                                    !.initSlots = @ \cup {map_len(store.outgoing)},
                                    !.nAlloc = @ + 1,
                                    !.sent = Append(@, <<"Init", unwrap(r.ret.mid)>>)]
                  ELSE hist)

SendInit ==
    /\ pc = "running"
    /\ LET r == send_init(store, outcome)
       IN  Step("send_init", NoArgs, r,
                IF r.res = "Ok"
                THEN [hist EXCEPT !.sendInit = @ \cup {unwrap(r.ret.h)},
                                  !.nAlloc = @ + 1]
                ELSE hist)

\* send_init, called as often as the program likes
SendInitRepeated ==
    /\ pc = "running"
    /\ LET r == send_init(store, outcome)
       IN  Apply("send_init", NoArgs, r,
                 IF r.res = "Ok"
                 THEN [hist EXCEPT !.sendInit = @ \cup {unwrap(r.ret.h)},
                                   !.nAlloc = @ + 1]
                 ELSE hist)

SendPush ==
    /\ pc = "running"
    /\ \E handle \in Handles, buffer \in Chunks :
         /\ Fits(buffer)
         /\ LET r == send_push(store, outcome, handle, buffer)
            IN  Step("send_push",
                     [NoArgs EXCEPT !.h = Some(handle), !.bytes = buffer],
                     r,
                     IF r.res = "Ok"
                     THEN [hist EXCEPT !.pushed[handle] = @ \o buffer,
                                       !.streamed = @ + Len(buffer)]
                     ELSE hist)

SendCommit ==
    /\ pc = "running"
    /\ \E handle \in Handles, packet \in HandlePackets :
         LET r == send_commit(store, outcome, handle, packet)
             tried == IF handle \in hist.sendInit
                      THEN hist.commitTried \cup {handle}
                      ELSE hist.commitTried
         IN  Step("send_commit",
                  [NoArgs EXCEPT !.h = Some(handle),
                                 !.dest = Some(packet.destination),
                                 !.bytes = packet.payload],
                  r,
                  IF r.res = "Ok"
                  THEN [hist EXCEPT !.commitTried = tried,
                                    !.commitOk = @ \cup {handle},
                                    !.sent = Append(@, <<"Handle", unwrap(r.ret.mid)>>)]
                  ELSE [hist EXCEPT !.commitTried = tried])

ReplyPush ==
    /\ pc = "running"
    /\ \E buffer \in Chunks :
         /\ Fits(buffer)
         /\ LET r == reply_push(store, outcome, buffer)
            IN  Step("reply_push", [NoArgs EXCEPT !.bytes = buffer], r,
                     IF r.res = "Ok"
                     THEN [hist EXCEPT !.replyPushed = @ \o buffer,
                                       !.anyReplyPush = TRUE,
                                       !.streamed = @ + Len(buffer)]
                     ELSE hist)

ReplyCommit ==
    /\ pc = "running"
    /\ \E packet \in ReplyPackets :
         LET r == reply_commit(store, outcome, packet)
         IN  Step("reply_commit",
                  [NoArgs EXCEPT !.bytes = packet.payload,
                                 !.code = Some(packet.exit_code)],
                  r,
                  IF r.res = "Ok"
                  THEN [hist EXCEPT !.replyOk = @ + 1,
                                    !.sent = Append(@, <<"Reply", unwrap(r.ret.mid)>>)]
                  ELSE hist)

Wake ==
    /\ pc = "running"
    /\ \E waker_id \in WakeIds :
         LET r == wake(store, outcome, waker_id)
         IN  Step("wake", [NoArgs EXCEPT !.id = Some(waker_id)], r,
                  IF r.res = "Ok"
                  THEN [hist EXCEPT !.wakeOk = @ \cup {waker_id}]
                  ELSE hist)

\* the host ends the execution: MessageContext::drain, then ContextOutcome::drain
Drain ==
    /\ pc = "running"
    /\ LET halves == MessageContext_drain(store, outcome)
       IN  /\ store' = halves.store
           /\ outcome' = halves.outcome
           /\ drained' = ContextOutcome_drain(halves.outcome)
    /\ pc' = "drained"
    /\ lastOp' = [op |-> "drain", arg |-> NoArgs, res |-> "Ok", ret |-> NoRet]
    /\ prev' = Snapshot
    /\ UNCHANGED <<current, program_id, settings, execNo, hist, store_in, pristine>>

\* the host resumes the waiting message: a new context over the persisted store
Resume ==
    /\ pc = "drained"
    /\ hist.calls < MaxCalls
    /\ LET ctx == new_with_settings(current, program_id, Some(store), settings)
       IN  /\ store' = ctx.store
           /\ outcome' = ctx.outcome
           /\ store_in' = StoreIn(ctx.store)
    /\ pristine' = Some(store)
    /\ pc' = "running"
    /\ drained' = NothingDrained
    /\ execNo' = execNo + 1
    /\ lastOp' = [op |-> "new", arg |-> NoArgs, res |-> "Ok", ret |-> NoRet]
    /\ hist' = [hist EXCEPT !.nAlloc = 0, !.sent = <<>>, !.calls = @ + 1]
    /\ prev' = Snapshot
    /\ UNCHANGED <<current, program_id, settings>>

Next ==
    \/ InitProgram
    \/ SendInit
    \/ SendPush
    \/ SendCommit
    \/ ReplyPush
    \/ ReplyCommit
    \/ Wake
    \/ Drain

NextChain ==
    \/ Next
    \/ Resume

\* the allocations of a context with the default settings
NextDefault == SendInitRepeated

\* one execution of a context created with an empty store
Spec == Init /\ [][Next]_vars
\* a chain of executions, each resumed with the store drained from the last
SpecChain == InitChain /\ [][NextChain]_vars
\* one execution of a context with the default settings, allocating handles
SpecDefault == InitDefault /\ [][NextDefault]_vars

(***************************************************************************)
(* Properties.                                                             *)
(***************************************************************************)
Operations ==
    {"init_program", "send_init", "send_push", "send_commit", "reply_push",
     "reply_commit", "wake"}
\* the last step was a call of op
Called(op) == lastOp.op = op
\* the last step was a call of op that returned res
Returned(op, res) == lastOp.op = op /\ lastOp.res = res

\* C1: failure atomicity - whenever one of the seven operations returns an
\* error, the store and the outcome are exactly what they were before the call.
C1_FailureAtomicity ==
    (lastOp.op \in Operations /\ lastOp.res # "Ok")
        => (store = prev.store /\ outcome = prev.outcome)

\* a reply_push is rejected after a reply was committed and a handle message sent
C1_Witness ==
    /\ Returned("reply_push", "LateAccess")
    /\ is_some(outcome.reply)
    /\ outcome.handle # <<>>

\* C2: single reply - at most one reply_commit returns Ok; after it every
\* reply_commit returns DuplicateReply and every reply_push returns LateAccess.
C2_SingleReply ==
    /\ hist.replyOk <= 1
    /\ (Called("reply_commit") /\ prev.hist.replyOk >= 1)
          => lastOp.res = "DuplicateReply"
    /\ (Called("reply_push") /\ prev.hist.replyOk >= 1)
          => lastOp.res = "LateAccess"

\* a second reply_commit was refused
C2_Witness ==
    /\ Returned("reply_commit", "DuplicateReply")
    /\ prev.hist.replyOk = 1

\* the handle argument of the last call (send_push, send_commit)
ArgHandle == unwrap(lastOp.arg.h)

\* C3: handle lifecycle - for a handle h returned by send_init, the first
\* send_commit(h, _) issued afterwards succeeds, no other send_commit(h, _)
\* succeeds, and every send_push(h, _) or send_commit(h, _) after it returns
\* LateAccess.
C3_HandleLifecycle ==
    /\ (Called("send_commit") /\ ArgHandle \in prev.hist.sendInit
            /\ ArgHandle \notin prev.hist.commitTried)
          => lastOp.res = "Ok"
    /\ (Returned("send_commit", "Ok") /\ ArgHandle \in prev.hist.sendInit)
          => ArgHandle \notin prev.hist.commitTried
    /\ ((Called("send_commit") \/ Called("send_push"))
            /\ ArgHandle \in prev.hist.sendInit
            /\ ArgHandle \in prev.hist.commitOk)
          => lastOp.res = "LateAccess"

\* a push to a handle that was pushed to, then committed, while another handle
\* is still open
C3_Witness ==
    /\ Returned("send_push", "LateAccess")
    /\ ArgHandle \in hist.sendInit
    /\ ArgHandle \in hist.commitOk
    /\ hist.pushed[ArgHandle] # <<>>
    /\ \E h \in hist.sendInit : h \notin hist.commitOk

\* the destination argument of the last call (init_program)
ArgDest == unwrap(lastOp.arg.dest)

\* C4: duplicate initialization - once init_program succeeded for a
\* destination, every later init_program for it returns DuplicateInit.
C4_DuplicateInit ==
    (Called("init_program") /\ ArgDest \in prev.hist.initOk)
        => lastOp.res = "DuplicateInit"

\* the duplicate is refused in a state where the limit is reached as well,
\* after another operation allocated a handle in between
C4_Witness ==
    /\ Returned("init_program", "DuplicateInit")
    /\ map_len(store.outgoing) >= settings.outgoing_limit
    /\ hist.sendInit # {}

\* C5: allocation accounting - in a context created with an empty store the
\* number of successful init_program and send_init calls equals
\* store.outgoing.len(), which never exceeds settings.outgoing_limit.
C5_AllocationAccounting ==
    execNo = 0 =>
        /\ hist.nAlloc = map_len(store.outgoing)
        /\ map_len(store.outgoing) <= settings.outgoing_limit

\* an allocation is refused after one init_program and one send_init succeeded
C5_Witness ==
    /\ Returned("send_init", "LimitExceeded")
    /\ hist.nAlloc = 2
    /\ hist.initOk # {}
    /\ hist.sendInit # {}

\* the id argument of the last call (wake)
ArgId == unwrap(lastOp.arg.id)

\* C6: duplicate wake detection - the first wake(m) succeeds and every later
\* wake(m) returns DuplicateWaking, whatever other ids were woken.
C6_DuplicateWake ==
    Called("wake") =>
        /\ ArgId \notin prev.hist.wakeOk => lastOp.res = "Ok"
        /\ ArgId \in prev.hist.wakeOk => lastOp.res = "DuplicateWaking"

\* an id is refused the second time after another id was woken
C6_Witness ==
    /\ Returned("wake", "DuplicateWaking")
    /\ \E m \in hist.wakeOk : m # ArgId

\* <<kind, id>> of each dispatch of a list
KindsAndIds(dispatches) ==
    [i \in 1..Len(dispatches) |-> <<dispatches[i].kind, dispatches[i].id>>]
\* the successful emissions of one kind, in call order
SentOf(kind) == SelectSeq(hist.sent, LAMBDA e : e[1] = kind)

\* C7: drain order - the drained dispatch list is the init messages in the
\* order their init_program calls succeeded, then the handle messages in the
\* order their send_commit calls succeeded, then the reply if one was committed.
C7_DrainOrder ==
    pc = "drained" =>
        KindsAndIds(drained.dispatches)
            = SentOf("Init") \o SentOf("Handle") \o SentOf("Reply")

\* the reply was committed first, then handle 1, then handle 0
C7_Witness ==
    /\ pc = "drained"
    /\ Len(hist.sent) = 3
    /\ hist.sent[1][1] = "Reply"
    /\ hist.sent[2] = <<"Handle", generate_outgoing(current.id, 1)>>
    /\ hist.sent[3] = <<"Handle", generate_outgoing(current.id, 0)>>

\* C8: streaming send payload - the message of a successful send_commit(h, p)
\* carries the bytes of the successful send_push(h, _) calls in call order,
\* followed by p's payload, and nothing pushed to another handle.
C8_SendPayload ==
    Returned("send_commit", "Ok") =>
        /\ Len(outcome.handle) = Len(prev.outcome.handle) + 1
        /\ outcome.handle[Len(outcome.handle)].payload
              = prev.hist.pushed[ArgHandle] \o lastOp.arg.bytes

\* a commit of a handle after a push to it and a push to another handle
C8_Witness ==
    /\ Returned("send_commit", "Ok")
    /\ prev.hist.pushed[ArgHandle] # <<>>
    /\ \E h \in Handles : h # ArgHandle /\ prev.hist.pushed[h] # <<>>

\* C9: reply payload - the reply of a successful reply_commit(p) carries the
\* bytes of the successful reply_push calls in call order, followed by p's
\* payload; with no reply_push before it, reply_commit succeeds and the payload
\* is p's payload.
C9_ReplyPayload ==
    /\ Returned("reply_commit", "Ok") =>
          /\ is_some(outcome.reply)
          /\ unwrap(outcome.reply).payload = prev.hist.replyPushed \o lastOp.arg.bytes
    /\ (Called("reply_commit") /\ ~prev.hist.anyReplyPush /\ prev.hist.replyOk = 0) =>
          /\ lastOp.res = "Ok"
          /\ is_some(outcome.reply)
          /\ unwrap(outcome.reply).payload = lastOp.arg.bytes

\* a reply committed after two reply_push calls with different bytes
C9_Witness ==
    /\ Returned("reply_commit", "Ok")
    /\ Len(prev.hist.replyPushed) = 2
    /\ prev.hist.replyPushed[1] # prev.hist.replyPushed[2]

\* C10: out-of-bounds handles - send_push(h, _) and send_commit(h, _) return
\* OutOfBounds exactly when h is no key of store.outgoing, that is when
\* h >= store.outgoing.len().
C10_OutOfBounds ==
    (Called("send_push") \/ Called("send_commit")) =>
        /\ lastOp.res = "OutOfBounds" <=> ArgHandle \notin DOMAIN prev.store.outgoing
        /\ ArgHandle \notin DOMAIN prev.store.outgoing
              <=> ArgHandle >= map_len(prev.store.outgoing)

\* send_commit(0, _) on a context on which nothing was done yet
C10_Witness ==
    /\ Returned("send_commit", "OutOfBounds")
    /\ ArgHandle = 0
    /\ prev.store = ContextStore_default
    /\ prev.hist = HistInit

\* the ids of a list, as a set
Range(seq) == {seq[i] : i \in DOMAIN seq}
\* no element occurs twice in the list
NoDuplicates(seq) == \A i, j \in DOMAIN seq : i # j => seq[i] # seq[j]
\* positions of the InitMessages of outcome.init sent to pid
InitsTo(pid) == {i \in DOMAIN outcome.init : outcome.init[i].destination = pid}

\* C12 as stated: in every context, fresh or resumed, outcome.reply is present
\* if and only if store.reply_sent is true.
C12_AsStated == is_some(outcome.reply) <=> store.reply_sent

\* C12: reply/latch invariant - outcome.reply is present if and only if
\* store.reply_sent is true and was not already true in the store the context
\* was created with; for a context created with an empty store that is
\* outcome.reply present if and only if store.reply_sent.
C12_ReplyLatch ==
    is_some(outcome.reply) <=> (store.reply_sent /\ ~store_in.reply_sent)

\* a resumed context commits the reply that the first execution only buffered
C12_Witness ==
    /\ execNo = 1
    /\ Returned("reply_commit", "Ok")
    /\ is_some(outcome.reply)
    /\ hist.anyReplyPush

\* C13 as stated: in every context, fresh or resumed, the ids of
\* outcome.awakening are exactly the members of store.awaken, each once.
C13_AsStated ==
    /\ NoDuplicates(outcome.awakening)
    /\ Range(outcome.awakening) = store.awaken

\* C13: wake bookkeeping invariant - the ids of outcome.awakening are exactly
\* the members of store.awaken that were not in the store the context was
\* created with, each once, and that store's members all remain in
\* store.awaken; for a context created with an empty store the ids listed are
\* exactly the members of store.awaken.
C13_WakeBookkeeping ==
    /\ NoDuplicates(outcome.awakening)
    /\ Range(outcome.awakening) = store.awaken \ store_in.awaken
    /\ store_in.awaken \subseteq store.awaken

\* a resumed context wakes an id after the first execution woke another
C13_Witness ==
    /\ execNo = 1
    /\ Returned("wake", "Ok")
    /\ store_in.awaken # {}
    /\ Len(outcome.awakening) = 1

Allocated(h) == h.sendInit \cup h.initSlots
\* the keys the last call added to store.outgoing
NewKeys == (DOMAIN store.outgoing) \ (DOMAIN prev.store.outgoing)

\* C15: dense handles - in every state reachable from a fresh context the keys
\* of store.outgoing are exactly 0 .. store.outgoing.len()-1, no operation
\* removes a key, and a successful allocation adds one key that was never
\* allocated before.
C15_DenseHandles ==
    /\ DOMAIN store.outgoing = 0..(map_len(store.outgoing) - 1)
    /\ DOMAIN prev.store.outgoing \subseteq DOMAIN store.outgoing
    /\ map_len(prev.store.outgoing) <= map_len(store.outgoing)
    /\ (Returned("send_init", "Ok") \/ Returned("init_program", "Ok")) =>
          /\ Cardinality(NewKeys) = 1
          /\ NewKeys \cap Allocated(prev.hist) = {}
    /\ Returned("send_init", "Ok") => NewKeys = {unwrap(lastOp.ret.h)}

\* send_init returns handle 1 after handle 0 was committed
C15_Witness ==
    /\ Returned("send_init", "Ok")
    /\ unwrap(lastOp.ret.h) = 1
    /\ 0 \in hist.commitOk
    /\ store.outgoing[0] = None

\* C16: tombstones are terminal - a slot of store.outgoing that is None before
\* a call is still there and None after it, whatever the call.
C16_TombstonesTerminal ==
    \A h \in DOMAIN prev.store.outgoing :
        prev.store.outgoing[h] = None
            => (h \in DOMAIN store.outgoing /\ store.outgoing[h] = None)

\* a push to a committed handle, next to a slot of init_program
C16_Witness ==
    /\ Called("send_push")
    /\ ArgHandle \in hist.commitOk
    /\ prev.store.outgoing[ArgHandle] = None
    /\ hist.initSlots # {}

\* C17: init handles are born tombstoned - after a successful init_program
\* the slot h = store.outgoing.len() before the call is None, every later
\* send_push(h, _) and send_commit(h, _) returns LateAccess, and no send_commit
\* ever succeeds on h.
C17_InitTombstone ==
    /\ Returned("init_program", "Ok") =>
          LET h == map_len(prev.store.outgoing)
          IN  h \in DOMAIN store.outgoing /\ store.outgoing[h] = None
    /\ ((Called("send_push") \/ Called("send_commit"))
            /\ ArgHandle \in prev.hist.initSlots)
          => lastOp.res = "LateAccess"
    /\ hist.initSlots \cap hist.commitOk = {}

\* a commit on the slot of an init_program that came after a send_init
C17_Witness ==
    /\ Returned("send_commit", "LateAccess")
    /\ ArgHandle \in hist.initSlots
    /\ ArgHandle = 1
    /\ 0 \in hist.sendInit

\* C18: zero limit - with settings.outgoing_limit = 0 every init_program and
\* every send_init returns LimitExceeded, while reply_push and reply_commit
\* succeed as long as no reply was committed and wake succeeds for an id not
\* yet woken.
C18_ZeroLimit ==
    settings.outgoing_limit = 0 =>
        /\ (Called("init_program") \/ Called("send_init"))
              => lastOp.res = "LimitExceeded"
        /\ ((Called("reply_push") \/ Called("reply_commit"))
                /\ prev.hist.replyOk = 0)
              => lastOp.res = "Ok"
        /\ (Called("wake") /\ ArgId \notin prev.hist.wakeOk) => lastOp.res = "Ok"

\* init_program is refused after a reply was pushed and committed and an id
\* woken
C18_Witness ==
    /\ settings.outgoing_limit = 0
    /\ Returned("init_program", "LimitExceeded")
    /\ hist.anyReplyPush
    /\ hist.replyOk = 1
    /\ hist.wakeOk # {}

\* the last call asked for a new slot: send_init, or init_program with a
\* destination that is not initialized
AllocationCall ==
    \/ Called("send_init")
    \/ Called("init_program") /\ ArgDest \notin prev.store.initialized

\* C19: limit condition - an allocation returns LimitExceeded exactly when
\* store.outgoing.len() >= settings.outgoing_limit, and succeeds otherwise; in
\* a context created with an empty store it succeeds exactly when fewer than
\* outgoing_limit allocations succeeded before it.
C19_LimitCondition ==
    AllocationCall =>
        /\ lastOp.res = "LimitExceeded"
              <=> map_len(prev.store.outgoing) >= settings.outgoing_limit
        /\ lastOp.res \in {"Ok", "LimitExceeded"}
        /\ execNo = 0 =>
              (lastOp.res = "Ok" <=> prev.hist.nAlloc < settings.outgoing_limit)

\* with outgoing_limit = 1, init_program is refused after one send_init
C19_Witness ==
    /\ settings.outgoing_limit = 1
    /\ Returned("init_program", "LimitExceeded")
    /\ hist.sendInit = {0}
    /\ hist.nAlloc = 1

\* C20: per-execution cap - an allocation returns LimitExceeded only when
\* outgoing_limit handles were already opened during the same execution.
C20_PerExecutionCap ==
    (AllocationCall /\ lastOp.res = "LimitExceeded")
        => prev.hist.nAlloc >= settings.outgoing_limit

\* C21: bounded emission - in a context created with an empty store
\* |outcome.init| + |outcome.handle| never exceeds settings.outgoing_limit, and
\* drain yields at most outgoing_limit + 1 dispatches.
C21_BoundedEmission ==
    execNo = 0 =>
        /\ Len(outcome.init) + Len(outcome.handle) <= settings.outgoing_limit
        /\ pc = "drained"
              => Len(drained.dispatches) <= settings.outgoing_limit + 1

\* a drain that yields outgoing_limit + 1 dispatches, one of each kind
C21_Witness ==
    /\ pc = "drained"
    /\ settings.outgoing_limit = 2
    /\ Len(drained.dispatches) = 3
    /\ Len(outcome.init) = 1
    /\ Len(outcome.handle) = 1

\* the errors each operation may return
ErrorsOf(op) ==
    CASE op = "init_program" -> {"DuplicateInit", "LimitExceeded"}
      [] op = "send_init" -> {"LimitExceeded"}
      [] op = "send_push" -> {"OutOfBounds", "LateAccess"}
      [] op = "send_commit" -> {"OutOfBounds", "LateAccess"}
      [] op = "reply_push" -> {"LateAccess"}
      [] op = "reply_commit" -> {"DuplicateReply"}
      [] op = "wake" -> {"DuplicateWaking"}
      [] OTHER -> {}

\* C22: closed error taxonomy - every operation returns Ok or an error of its
\* own subset; drain returns its pair, and current and program_id their value,
\* in every state.
C22_ErrorTaxonomy ==
    /\ lastOp.res \in {"Ok"} \cup ErrorsOf(lastOp.op)
    /\ MessageContext_current \in IncomingMessages
    /\ MessageContext_program_id \in ExecutingPrograms

\* a second reply is refused after an init, a wake and a refused allocation
C22_Witness ==
    /\ Returned("reply_commit", "DuplicateReply")
    /\ hist.initOk # {}
    /\ hist.wakeOk # {}
    /\ map_len(store.outgoing) >= settings.outgoing_limit

\* ids of the messages of a list
IdsOf(msgs) == {msgs[i].id : i \in DOMAIN msgs}
\* ids of the handle messages of the handles on which a send_commit succeeded
CommittedIds == {generate_outgoing(current.id, h) : h \in hist.commitOk}

\* C23: only committed messages are sent - in a context created with an empty
\* store outcome.handle, and the drained dispatch list, holds exactly one
\* handle message per handle on which a send_commit succeeded; a handle opened
\* by send_init and not committed has its pushed bytes in store.outgoing[h].
C23_OnlyCommitted ==
    execNo = 0 =>
        /\ IdsOf(outcome.handle) = CommittedIds
        /\ Len(outcome.handle) = Cardinality(hist.commitOk)
        /\ \A h \in hist.sendInit \ hist.commitOk :
              store.outgoing[h] = Some(hist.pushed[h])
        /\ pc = "drained" =>
              LET sent == SelectSeq(drained.dispatches,
                                    LAMBDA d : d.kind = "Handle")
              IN  IdsOf(sent) = CommittedIds /\ Len(sent) = Len(outcome.handle)

\* drained with handle 0 committed and handle 1 pushed to but not committed
C23_Witness ==
    /\ pc = "drained"
    /\ hist.commitOk = {0}
    /\ hist.sendInit = {0, 1}
    /\ hist.pushed[1] # <<>>
    /\ Len(drained.dispatches) = 1

\* C24: committed reply is immutable - once outcome.reply is present, no
\* operation of the context changes it.
C24_ReplyImmutable ==
    (lastOp.op # "new" /\ is_some(prev.outcome.reply))
        => outcome.reply = prev.outcome.reply

\* a handle message is committed after the reply, which had pushed bytes
C24_Witness ==
    /\ Returned("send_commit", "Ok")
    /\ is_some(prev.outcome.reply)
    /\ hist.anyReplyPush

C28_ReadOnlyIdentity ==
    /\ MessageContext_current \in IncomingMessages
    /\ MessageContext_program_id = program_id
    /\ outcome.program_id = program_id
    /\ outcome.source = MessageContext_current.source
    /\ outcome.origin_msg_id = MessageContext_current.id
    /\ lastOp.op \in Operations =>
          /\ outcome.program_id = prev.outcome.program_id
          /\ outcome.source = prev.outcome.source
          /\ outcome.origin_msg_id = prev.outcome.origin_msg_id

\* after successful and refused operations that wrote to the outcome
C28_Witness ==
    /\ lastOp.op \in Operations
    /\ lastOp.res # "Ok"
    /\ outcome.init # <<>>
    /\ is_some(outcome.reply)
    /\ outcome.awakening # <<>>

\* the handles opened by send_init and not committed before the last call
OpenBefore == prev.hist.sendInit \ prev.hist.commitOk

\* C25: resumption keeps pending buffers - a context created with a drained
\* store starts with that store and an empty outcome; in it every handle that
\* is open accepts send_push and send_commit, a committed handle message
\* carries all the bytes pushed to the handle, those of earlier executions
\* first, and a committed reply all the bytes reply_push'ed.
C25_ResumptionKeepsBuffers ==
    execNo >= 1 =>
        /\ lastOp.op = "new" =>
              /\ store = prev.store
              /\ outcome = ContextOutcome_new(program_id, current.source, current.id)
        /\ ((Called("send_push") \/ Called("send_commit"))
                /\ ArgHandle \in OpenBefore)
              => lastOp.res = "Ok"
        /\ Returned("send_commit", "Ok") =>
              outcome.handle[Len(outcome.handle)].payload
                  = prev.hist.pushed[ArgHandle] \o lastOp.arg.bytes
        /\ Returned("reply_commit", "Ok") =>
              unwrap(outcome.reply).payload
                  = prev.hist.replyPushed \o lastOp.arg.bytes

\* a context just resumed: a handle with pushed bytes is open, and the reply
\* committed before the drain is not in the new outcome
C25_Witness ==
    /\ execNo = 1
    /\ lastOp.op = "new"
    /\ \E h \in DOMAIN store.outgoing :
          is_some(store.outgoing[h]) /\ unwrap(store.outgoing[h]) # <<>>
    /\ is_some(prev.outcome.reply)
    /\ outcome.reply = None

\* C29: default settings - ContextSettings::default() and MessageContext::new
\* give sending_fee = 0 and outgoing_limit = 1024, and in a fresh context with
\* them an allocation returns LimitExceeded exactly when 1024 allocations
\* succeeded before it.
C29_DefaultSettings ==
    /\ ContextSettings_default = [sending_fee |-> 0, outgoing_limit |-> 1024]
    /\ MessageContext_new(current, program_id, None).settings
          = [sending_fee |-> 0, outgoing_limit |-> 1024]
    /\ (execNo = 0 /\ settings.outgoing_limit = 1024 /\ AllocationCall) =>
          (lastOp.res = "LimitExceeded" <=> prev.hist.nAlloc >= 1024)

\* the 1025th send_init of a context with the default settings is refused
C29_Witness ==
    /\ settings = ContextSettings_default
    /\ Returned("send_init", "LimitExceeded")
    /\ hist.nAlloc = 1024
    /\ map_len(store.outgoing) = 1024

\* C30: store round-trip - decoding the encoding of every store reachable by
\* operations yields an equal store, and iterating the outgoing mapping of the
\* decoded store yields the handles in ascending order.
C30_StoreRoundTrip ==
    LET decoded == ContextStore_decode(ContextStore_encode(store))
        handles == iter(DOMAIN decoded.outgoing)
    IN  /\ decoded = store
        /\ \A i, j \in DOMAIN handles : i < j => handles[i] < handles[j]

\* a store with a tombstone, an open buffer with bytes, a reply buffer, an
\* initialized program and a woken id
C30_Witness ==
    /\ \E h \in DOMAIN store.outgoing : store.outgoing[h] = None
    /\ \E h \in DOMAIN store.outgoing :
          is_some(store.outgoing[h]) /\ unwrap(store.outgoing[h]) # <<>>
    /\ is_some(store.reply)
    /\ store.initialized # {}
    /\ store.awaken # {}

\* C31: error precedence in init_program - when the destination is already
\* initialized and store.outgoing.len() >= settings.outgoing_limit,
\* init_program returns DuplicateInit.
C31_InitPrecedence ==
    (Called("init_program")
        /\ ArgDest \in prev.store.initialized
        /\ map_len(prev.store.outgoing) >= settings.outgoing_limit)
        => lastOp.res = "DuplicateInit"

\* both destinations are initialized, the limit of 2 is reached, and one of
\* them is asked for again
C31_Witness ==
    /\ Returned("init_program", "DuplicateInit")
    /\ settings.outgoing_limit = 2
    /\ hist.initSlots = {0, 1}
    /\ map_len(prev.store.outgoing) = 2

\* the id the last call returned
RetId == unwrap(lastOp.ret.mid)

\* C32: generated identifiers - init_program returns its destination and
\* Outgoing(incoming id, store.outgoing.len() before the call), send_commit(h, _)
\* returns Outgoing(incoming id, h), reply_commit returns
\* Reply(incoming id, exit code), and each is the id of the message the call
\* recorded in the outcome.
C32_GeneratedIds ==
    /\ Returned("init_program", "Ok") =>
          /\ lastOp.ret.pid = Some(ArgDest)
          /\ RetId = generate_outgoing(current.id, map_len(prev.store.outgoing))
          /\ outcome.init[Len(outcome.init)].id = RetId
          /\ outcome.init[Len(outcome.init)].destination = ArgDest
    /\ Returned("send_commit", "Ok") =>
          /\ RetId = generate_outgoing(current.id, ArgHandle)
          /\ outcome.handle[Len(outcome.handle)].id = RetId
    /\ Returned("reply_commit", "Ok") =>
          /\ RetId = generate_reply(current.id, unwrap(lastOp.arg.code))
          /\ unwrap(outcome.reply).id = RetId

\* handle 0 is committed after handle 1, with bytes pushed to it
C32_Witness ==
    /\ Returned("send_commit", "Ok")
    /\ ArgHandle = 0
    /\ prev.hist.commitOk = {1}
    /\ prev.hist.pushed[0] # <<>>

\* the handle indices from which an outgoing id was generated
IdsGeneratedFrom(h) == h.initSlots \cup h.commitOk

\* C33: no identifier aliasing - over a chain of executions sharing the store
\* and the incoming message id, an outgoing id is generated from a handle
\* index by at most one successful operation: the init_program that allocated
\* it or the one successful send_commit on it.
C33_NoAliasing ==
    /\ Returned("init_program", "Ok") =>
          /\ map_len(prev.store.outgoing) \notin IdsGeneratedFrom(prev.hist)
          /\ RetId = generate_outgoing(current.id, map_len(prev.store.outgoing))
    /\ Returned("send_commit", "Ok") =>
          /\ ArgHandle \notin IdsGeneratedFrom(prev.hist)
          /\ RetId = generate_outgoing(current.id, ArgHandle)
    /\ hist.initSlots \cap hist.commitOk = {}

\* a resumed context commits a handle that an earlier execution opened
C33_Witness ==
    /\ execNo = 1
    /\ Returned("send_commit", "Ok")
    /\ hist.nAlloc = 0
    /\ ArgHandle \in hist.sendInit

\* C34: handle numbering - a successful send_init returns store.outgoing.len()
\* before the call, which in a context created with an empty store is the
\* number of earlier successful init_program and send_init calls, inserts
\* (h, Some(empty)) and changes nothing else.
C34_HandleNumbering ==
    Returned("send_init", "Ok") =>
        LET h == unwrap(lastOp.ret.h)
        IN  /\ h = map_len(prev.store.outgoing)
            /\ execNo = 0 => h = prev.hist.nAlloc
            /\ store = [prev.store EXCEPT
                           !.outgoing = map_insert(@, h, Some(<<>>))]
            /\ outcome = prev.outcome

\* after one successful init_program the first send_init returns 1
C34_Witness ==
    /\ Returned("send_init", "Ok")
    /\ unwrap(lastOp.ret.h) = 1
    /\ hist.initSlots = {0}
    /\ hist.sendInit = {1}

\* C35: buffering never reaches the host - send_init, send_push and reply_push
\* leave the outcome unchanged, failed or not; a successful send_push(h, _)
\* changes only store.outgoing[h], a successful reply_push only store.reply.
C35_BufferingStaysInStore ==
    /\ (Called("send_init") \/ Called("send_push") \/ Called("reply_push"))
          => outcome = prev.outcome
    /\ Returned("send_push", "Ok") =>
          store = [prev.store EXCEPT
                      !.outgoing[ArgHandle] = store.outgoing[ArgHandle]]
    /\ Returned("reply_push", "Ok") =>
          store = [prev.store EXCEPT !.reply = store.reply]

\* a push to a handle after a message was committed and reply bytes buffered
C35_Witness ==
    /\ Returned("send_push", "Ok")
    /\ outcome.handle # <<>>
    /\ is_some(store.reply)
    /\ store.outgoing[ArgHandle] # prev.store.outgoing[ArgHandle]

\* the last call was one of the reply channel / of the send channel
ReplyChannelCall == Called("reply_push") \/ Called("reply_commit")
SendChannelCall ==
    \/ Called("init_program")
    \/ Called("send_init")
    \/ Called("send_push")
    \/ Called("send_commit")

\* C36: channel independence - the reply operations change nothing of the
\* send and wake channels, the send operations nothing of the reply and wake
\* channels, wake only store.awaken and outcome.awakening, and a successful
\* send_commit(h, _) or send_push(h, _) no slot of store.outgoing but h.
C36_ChannelIndependence ==
    /\ ReplyChannelCall =>
          /\ store.outgoing = prev.store.outgoing
          /\ store.initialized = prev.store.initialized
          /\ store.awaken = prev.store.awaken
          /\ outcome.init = prev.outcome.init
          /\ outcome.handle = prev.outcome.handle
          /\ outcome.awakening = prev.outcome.awakening
    /\ SendChannelCall =>
          /\ store.reply = prev.store.reply
          /\ store.reply_sent = prev.store.reply_sent
          /\ store.awaken = prev.store.awaken
          /\ outcome.reply = prev.outcome.reply
          /\ outcome.awakening = prev.outcome.awakening
    /\ Called("wake") =>
          /\ store = [prev.store EXCEPT !.awaken = store.awaken]
          /\ outcome = [prev.outcome EXCEPT !.awakening = outcome.awakening]
    /\ (Returned("send_commit", "Ok") \/ Returned("send_push", "Ok")) =>
          /\ DOMAIN store.outgoing = DOMAIN prev.store.outgoing
          /\ \A k \in (DOMAIN store.outgoing) \ {ArgHandle} :
                store.outgoing[k] = prev.store.outgoing[k]

\* a handle is committed while reply bytes are pending, an id is woken and
\* another handle holds bytes
C36_Witness ==
    /\ Returned("send_commit", "Ok")
    /\ is_some(store.reply)
    /\ store.awaken # {}
    /\ \E k \in (DOMAIN store.outgoing) \ {ArgHandle} :
          is_some(store.outgoing[k])

\* C37: no pending reply bytes after the reply is sent - over a chain of
\* executions store.reply_sent implies store.reply = None, and a reply_push
\* refused with LateAccess leaves store.reply as None.
C37_NoPendingReply ==
    /\ store.reply_sent => store.reply = None
    /\ Returned("reply_push", "LateAccess") => store.reply = None

\* a resumed context refuses a reply_push: the reply, with pushed bytes, was
\* committed before
C37_Witness ==
    /\ execNo = 1
    /\ Returned("reply_push", "LateAccess")
    /\ hist.anyReplyPush
    /\ store.reply = None

\* C38: wake list of one execution - in every context, fresh or resumed,
\* outcome.awakening holds no id twice, grows at its end by the id of each
\* successful wake and by nothing else, is a subset of store.awaken and holds
\* no id of the store the context was created with.
C38_WakeList ==
    /\ NoDuplicates(outcome.awakening)
    /\ lastOp.op = "new" => outcome.awakening = <<>>
    /\ Returned("wake", "Ok") =>
          outcome.awakening = Append(prev.outcome.awakening, ArgId)
    /\ (lastOp.op \in Operations /\ ~Returned("wake", "Ok"))
          => outcome.awakening = prev.outcome.awakening
    /\ Range(outcome.awakening) \subseteq store.awaken
    /\ Range(outcome.awakening) \cap store_in.awaken = {}

\* a resumed context woke an id and is refused the id that the first
\* execution woke
C38_Witness ==
    /\ execNo = 1
    /\ Returned("wake", "DuplicateWaking")
    /\ ArgId \in store_in.awaken
    /\ outcome.awakening # <<>>

\* C39: create-then-drain is the identity on the store - a context on which
\* no operation succeeded drains to the store it was created with (the empty
\* store when it was given none), to an outcome without messages and wakes,
\* and to empty dispatch and wake lists.
C39_CreateThenDrain ==
    (pc = "drained" /\ is_some(pristine)) =>
        /\ store = unwrap(pristine)
        /\ execNo = 0 => store = ContextStore_default
        /\ outcome = ContextOutcome_new(program_id, current.source, current.id)
        /\ drained = NothingDrained

\* a resumed context is drained with nothing done: the store holds pending
\* reply bytes, an open handle and a woken id
C39_Witness ==
    /\ pc = "drained"
    /\ is_some(pristine)
    /\ execNo = 1
    /\ is_some(store.reply)
    /\ store.awaken # {}
    /\ \E h \in DOMAIN store.outgoing : is_some(store.outgoing[h])

====
